---------------------------- MODULE Spec2Model ----------------------------
(***************************************************************************)
(* State-machine model of the scroll-depth simulation (App component, the  *)
(* newest revision in src/unnamed/part_000, lines 1316-2072) together with *)
(* the achievement table (src/unnamed/part_001) and the calibration dialog *)
(* (src/components/CardCalibration.tsx).                                   *)
(*                                                                         *)
(* Numbers are fixed point:                                                *)
(*   raw lengths (depth, velocity, input deltas)   1/100 px                *)
(*   rAF / performance.now() time                  1 ms                    *)
(*   dtSec                                         1/6000 s                *)
(*   px per second (lastVelocity)                  1 px/s                  *)
(*   accelVal                                      1000 px/s^2             *)
(*   pxPerCm                                       1/100 px/cm             *)
(*   currentCm                                     1/100 cm                *)
(*   totalDistance (metres in the code)            1/10000 m               *)
(*   speeds in m/s                                 1 mm/s                  *)
(*   accelerations in m/s^2                        1 m/s^2                 *)
(*   Achievement.meters                            1/100 m                 *)
(* Divisions truncate; the code computes in IEEE doubles.                  *)
(*                                                                         *)
(* React state that no handler reads back (the display mirrors depth,      *)
(* velocity, runTime, aveSpeed, maxSpeed, totalDistance, maxAccel,         *)
(* currentSpeedMps, highScore, unlockedTitles, titleToast) is left out;    *)
(* the refs those mirrors copy are modelled.                               *)
(***************************************************************************)
EXTENDS Integers, Sequences, FiniteSets, TLC

\* ------------------------------------------------------------------ bounds
\* Animation frames per behaviour.
MaxTicks == 3
\* Input and user-interface events (wheel, touch, clicks, reloads) per behaviour.
MaxEvents == 3
\* Longest candidate achievement table tried by the loader.
MaxCfgLen == 3

\* --------------------------------------------------------- program constants
FRICTION == 96
GRAVITY == 80
GRAVITY_DEPTH_SCALE == 10000
GRAVITY_MAX == 300
IDLE_GRAVITY_DELAY_MS == 2000
MOVING_EPS == 10
DEFAULT_LINE_HEIGHT_PX == 16
DEFAULT_PX_PER_CM == 3780
MILESTONES_CM == <<100, 500, 1000, 5000, 10000>>
MinSpacing == 10000
PersistIntervalMs == 500
WheelGain == 15
TouchGain == 25
RULER_CM == 5

ACHIEVEMENTS ==
  << [key |-> "77.7", meters |-> 7770],
     [key |-> "200", meters |-> 20000],
     [key |-> "333", meters |-> 33300],
     [key |-> "500", meters |-> 50000],
     [key |-> "634", meters |-> 63400],
     [key |-> "800", meters |-> 80000],
     [key |-> "1000", meters |-> 100000],
     [key |-> "1200", meters |-> 120000],
     [key |-> "1337", meters |-> 133700],
     [key |-> "1500", meters |-> 150000],
     [key |-> "1609.34", meters |-> 160934],
     [key |-> "1800", meters |-> 180000],
     [key |-> "2025", meters |-> 202500],
     [key |-> "2200", meters |-> 220000],
     [key |-> "2600", meters |-> 260000],
     [key |-> "2718.28", meters |-> 271828],
     [key |-> "3000", meters |-> 300000],
     [key |-> "3141.59", meters |-> 314159],
     [key |-> "3500", meters |-> 350000],
     [key |-> "3776.12", meters |-> 377612],
     [key |-> "4000", meters |-> 400000],
     [key |-> "4444", meters |-> 444400],
     [key |-> "4600", meters |-> 460000],
     [key |-> "5300", meters |-> 530000],
     [key |-> "5778", meters |-> 577800],
     [key |-> "6100", meters |-> 610000],
     [key |-> "6371", meters |-> 637100],
     [key |-> "7000", meters |-> 700000],
     [key |-> "8100", meters |-> 810000],
     [key |-> "8848.86", meters |-> 884886],
     [key |-> "9300", meters |-> 930000],
     [key |-> "10000", meters |-> 1000000] >>

\* ------------------------------------------------------ environment inputs
\* Gaps between animation frames, ms.
DtChoices == {4, 2000}
\* Normalised wheel deltas (1/100 px) an event may carry.
WheelDeltas == {-150000000, -100000, 300000, 150000000}
\* Finger movement between two touchmove events (1/100 px).
TouchDeltas == {40}
\* offsetWidth of the 10cm probe element; 0 when layout is unavailable.
ProbeWidths == {0, 378}
\* Slider positions of the calibration dialog, in 1/1000.
ScaleChoices == {500, 1800}
\* Diameters (1/10 mm) of two of the COINS of the calibration dialog.
CoinDiameters == {200, 265}
\* Threshold values (1/100 m) the candidate achievement tables are built from.
CfgMeters == {0, 9999, 10000, 19999, 20000}

\* ---------------------------------------------------------------- helpers
None == << >>
Some(x) == << x >>

Abs(x) == IF x < 0 THEN -x ELSE x
Sign(x) == IF x > 0 THEN 1 ELSE IF x < 0 THEN -1 ELSE 0
Max(a, b) == IF a >= b THEN a ELSE b
Min(a, b) == IF a <= b THEN a ELSE b

\* floor(a * b / c) for a >= 0, b > 0, c > 0, without a wide intermediate.
MulDiv(a, b, c) == (a \div c) * b + ((a % c) * b) \div c

\* Faulty variant: the friction of two frames in one.
ApplyFrictionTwice(x) ==
  Sign(x) * MulDiv(MulDiv(Abs(x), FRICTION, 100), FRICTION, 100)

\* x * FRICTION, truncated toward zero.
ApplyFriction(x) == Sign(x) * MulDiv(Abs(x), FRICTION, 100)

\* ------------------------------------------------------------------- state
VARIABLES
  phase,                \* "loading" | "mounted" | "failed" (module evaluation)
  config,               \* the ACHIEVEMENTS table the module was built with
  time,                 \* performance.now() / rAF timestamp of this page load
  store,                \* localStorage
  \* React state read by handlers
  inertiaEnabled, autoPxPerCm, calibratedPxPerCm, showCalibration, showTitleGallery,
  pendingResume, splits, scrollCount,
  updateQueue,          \* updater functions queued by the frame, not yet run
  \* refs
  depthRef, velocityRef, inputDeltaRef, lastVelocity, lastTimeRef,
  lastMoveTimeRef, lastScrollDir, runStartTimeRef, runTimeRef,
  passedMilestonesRef, splitsRef, totalDistanceRef, totalDistanceStatRef,
  aveSpeedRef, maxSpeedRef, maxAccelRef, currentSpeedMpsRef, scrollCountRef,
  unlockedTitlesRef, lastRunPersistAtRef,
  \* observation
  toastCalls,           \* keys handed to showTitleToast by the latest frame
  spacingChecks,        \* how often the spacing loop of the table has run
  lastOp,               \* the operation that produced this state
  ticks, events,        \* bounding counters
  \* the browser's animation-frame queue, followed only by SpecRaf
  requestRef,           \* requestRef.current, 0 while undefined
  pendingFrames,        \* handles of the callbacks requested and not yet run
  nextHandle            \* the handle requestAnimationFrame returns next

reactVars == << inertiaEnabled, autoPxPerCm, calibratedPxPerCm, showCalibration, showTitleGallery,
                pendingResume, splits, scrollCount, updateQueue >>
physVars == << depthRef, velocityRef, inputDeltaRef, lastVelocity, lastTimeRef,
               lastMoveTimeRef, lastScrollDir >>
runVars == << runStartTimeRef, runTimeRef, passedMilestonesRef, splitsRef,
              totalDistanceRef, totalDistanceStatRef, aveSpeedRef, maxSpeedRef,
              maxAccelRef, currentSpeedMpsRef, scrollCountRef >>
vars == << phase, config, time, store, reactVars, physVars, runVars,
           unlockedTitlesRef, lastRunPersistAtRef, toastCalls, spacingChecks,
           lastOp, ticks, events >>

rafVars == << requestRef, pendingFrames, nextHandle >>

EmptyStore == [highscore |-> None, inertia |-> None, cal |-> None,
               titles |-> None, run |-> None, unparseable |-> {}]

\* -------------------------------------------------- achievements (module load)
\* The loop at the end of data/achievements: TRUE when it throws.
RECURSIVE SpacingThrowsFrom(_, _)
SpacingThrowsFrom(cfg, index) ==
  IF index > Len(cfg) THEN FALSE
  ELSE IF cfg[index].meters - cfg[index - 1].meters < MinSpacing THEN TRUE
  ELSE SpacingThrowsFrom(cfg, index + 1)

\* Faulty variant: the loop starting one entry late.
SpacingThrowsOffByOne(cfg) == SpacingThrowsFrom(cfg, 3)

\* The spacing loop of the achievement module, run when it is imported.
SpacingThrows(cfg) == SpacingThrowsFrom(cfg, 2)

\* -------------------------------------------------------------- calibration
\* pxToCm is 1 / PxPerCm; conversions divide by PxPerCm.
PxPerCmOf(cal, auto) == IF cal # None THEN cal[1] ELSE auto
PxPerCm == PxPerCmOf(calibratedPxPerCm, autoPxPerCm)

\* raw px (1/100 px) -> cm (1/100 cm)
PxToCm(px, pxPerCm) == MulDiv(px, 100, pxPerCm)

\* (pxPerSec * pxToCm) / 100: px/s -> mm/s
SpeedMps(pxPerSec, pxPerCm) == MulDiv(pxPerSec, 1000, pxPerCm)

\* (accelVal * pxToCm) / 100: 1000 px/s^2 -> m/s^2
AccelMps2(accelVal, pxPerCm) == MulDiv(accelVal, 1000, pxPerCm)

AutoDetect(pxPer10Cm) ==
  IF pxPer10Cm > 0 THEN pxPer10Cm * 10 ELSE DEFAULT_PX_PER_CM

\* ------------------------------------------------------------------ physics
\* Faulty variant: the elapsed time without its lower bound.
DtSecUnclamped(lastTime, t) ==
  IF lastTime # None /\ lastTime[1] # 0 THEN (t - lastTime[1]) * 6 ELSE 100

\* dtSec in 1/6000 s: 1/120 s is 50, 1/60 s is 100.
DtSec(lastTime, t) ==
  IF lastTime # None /\ lastTime[1] # 0
  THEN Max((t - lastTime[1]) * 6, 50)
  ELSE 100

\* pxPerFrame / dtSec, px/s
PxPerSec(pxPerFrame, dtSec) == MulDiv(pxPerFrame, 60, dtSec)

\* |pxPerSec - lastPxPerSec| / dtSec, 1000 px/s^2
AccelVal(pxPerSec, lastPxPerSec, dtSec) ==
  MulDiv(Abs(pxPerSec - lastPxPerSec), 6, dtSec)

\* Faulty variant: only direct input counts as motion.
IsMovingInputOnly(v, directDelta) == Abs(directDelta) > MOVING_EPS

IsMoving(v, directDelta) == Abs(v) > MOVING_EPS \/ Abs(directDelta) > MOVING_EPS

IdleMs(lastMove, t) == IF lastMove = None THEN 0 ELSE t - lastMove[1]

\* Faulty variant: the pull grows with depth without a cap.
DynamicGravityUncapped(depth) == GRAVITY + depth \div GRAVITY_DEPTH_SCALE

DynamicGravity(depth) ==
  Min(GRAVITY + depth \div GRAVITY_DEPTH_SCALE, GRAVITY_MAX)

\* Faulty variant: the input is added to the velocity left from before.
FrameVelocityAdds(inertia, velocity, inputDelta) ==
  IF inertia THEN velocity ELSE velocity + inputDelta

\* The velocity a frame works with: in direct mode the pending input replaces
\* whatever velocityRef held.
FrameVelocity(inertia, velocity, inputDelta) ==
  IF inertia THEN velocity ELSE inputDelta

GravityPull(depth) == Max(0, depth - DynamicGravity(depth))

PhysicsStep(inertia, depth, v, directDelta, allowGravity) ==
  IF inertia
  THEN LET v1 == ApplyFriction(v)
           d1 == IF allowGravity /\ depth > 0 THEN GravityPull(depth) ELSE depth
       IN  [depth |-> d1 + v1, velocity |-> v1]
  ELSE LET d1 == IF directDelta # 0 THEN Max(0, depth + directDelta) ELSE depth
           v1 == IF directDelta = 0 THEN 0 ELSE v
           d2 == IF allowGravity /\ d1 > 0 THEN GravityPull(d1) ELSE d1
       IN  [depth |-> d2, velocity |-> v1]

\* Faulty variant: no floor.
HardFloorNoClamp(p) == p

\* Faulty variant: the floor stops the depth but not the motion.
HardFloorKeepsVelocity(p) ==
  IF p.depth <= 0 THEN [depth |-> 0, velocity |-> p.velocity] ELSE p

\* "Hard floor": depth <= 0 is clamped to 0 and stops the motion.
HardFloor(p) ==
  IF p.depth <= 0 THEN [depth |-> 0, velocity |-> 0] ELSE p

\* ---------------------------------------------------------------- lifecycle
\* Faulty variant: the timer is not cleared on the ground.
RunStartNoClear(depth, runStart, t) ==
  IF depth > 0 /\ runStart = None THEN Some(t) ELSE runStart

\* runStartTimeRef after the "Hard floor / Reset" block of a frame at time t.
RunStartAfter(depth, runStart, t) ==
  IF depth <= 0 THEN None
  ELSE IF runStart = None THEN Some(t) ELSE runStart

\* Faulty variant: only the landing starts the run data afresh.
RunDataResetOnLandingOnly(landing, takeoff) == landing

\* The frames whose "Hard floor / Reset" block clears the run data: the one
\* that grounds an active run and the one that takes off from the ground.
RunDataReset(landing, takeoff) == landing \/ takeoff

\* ---------------------------------------------------------------- milestones
\* Faulty variant: thresholds already passed are recorded again.
CrossedNoGuard(currentCm, passed) ==
  SelectSeq(MILESTONES_CM, LAMBDA m : currentCm >= m * 100)

\* Faulty variant: the loop stops at the first threshold it records.
CrossedFirstOnly(currentCm, passed) ==
  LET all == SelectSeq(MILESTONES_CM,
                       LAMBDA m : currentCm >= m * 100 /\ m \notin passed)
  IN  IF all = << >> THEN all ELSE << all[1] >>

\* Faulty variant: only the largest threshold reached is recorded.
CrossedLargestOnly(currentCm, passed) ==
  LET all == SelectSeq(MILESTONES_CM,
                       LAMBDA m : currentCm >= m * 100 /\ m \notin passed)
  IN  IF all = << >> THEN all ELSE << all[Len(all)] >>

\* The thresholds MILESTONES_CM.forEach records in one frame, in its order.
CrossedMilestones(currentCm, passed) ==
  SelectSeq(MILESTONES_CM, LAMBDA m : currentCm >= m * 100 /\ m \notin passed)

\* Faulty variant: the thresholds visited from the largest down.
SplitOpsDescending(crossed, currentRunTime) ==
  [i \in 1..Len(crossed) |->
     [op |-> "addSplit", distanceCm |-> crossed[Len(crossed) + 1 - i],
      timeMs |-> currentRunTime]]

\* The updaters setSplits receives for the thresholds crossed, in order.
SplitOps(crossed, currentRunTime) ==
  [i \in 1..Len(crossed) |->
     [op |-> "addSplit", distanceCm |-> crossed[i], timeMs |-> currentRunTime]]

SeqRange(q) == {q[i] : i \in 1..Len(q)}

\* [...list].sort((a, b) => b.distanceCm - a.distanceCm): stable, descending.
RECURSIVE InsertDesc(_, _)
InsertDesc(sorted, r) ==
  IF sorted = << >> THEN << r >>
  ELSE IF Head(sorted).distanceCm >= r.distanceCm
       THEN << Head(sorted) >> \o InsertDesc(Tail(sorted), r)
       ELSE << r >> \o sorted

RECURSIVE SortDesc(_)
SortDesc(list) ==
  IF list = << >> THEN << >>
  ELSE InsertDesc(SortDesc(SubSeq(list, 1, Len(list) - 1)), list[Len(list)])

\* State after React runs the queued updaters, oldest first.  An updater
\* assigns the ref it mirrors as a side effect.
RECURSIVE RunUpdaters(_, _)
RunUpdaters(queue, st) ==
  IF queue = << >> THEN st
  ELSE LET u == Head(queue)
           next ==
             IF u.op = "setSplits" THEN [st EXCEPT !.splits = u.value]
             ELSE IF u.op = "addSplit"
             THEN LET list == SortDesc(Append(st.splits,
                                [distanceCm |-> u.distanceCm, timeMs |-> u.timeMs]))
                  IN  [st EXCEPT !.splits = list, !.splitsRef = list]
             ELSE [st EXCEPT !.scrollCount = st.scrollCount + 1,
                             !.scrollCountRef = st.scrollCount + 1]
       IN  RunUpdaters(Tail(queue), next)

\* The split list as it stands once the pending updaters have run.
SplitsOnceRendered(queue, list) ==
  RunUpdaters(queue, [splits |-> list, splitsRef |-> list,
                      scrollCount |-> 0, scrollCountRef |-> 0]).splits
EffectiveSplits == SplitsOnceRendered(updateQueue, splits)

\* -------------------------------------------------------------- achievements
\* Faulty variant: unlockOnce without its store write.
UnlockOnceNoStore(acc, key) ==
  IF key \in acc.unlocked THEN acc
  ELSE [unlocked |-> acc.unlocked \cup {key},
        titles |-> acc.titles,
        toasts |-> Append(acc.toasts, key)]

\* Faulty variant: unlockOnce without its has(key) test.
UnlockOnceNoGuard(acc, key) ==
  [unlocked |-> acc.unlocked \cup {key},
   titles |-> Some(acc.unlocked \cup {key}),
   toasts |-> Append(acc.toasts, key)]

\* unlockOnce: acc is [unlocked, titles (the stored list), toasts].
UnlockOnce(acc, key) ==
  IF key \in acc.unlocked THEN acc
  ELSE [unlocked |-> acc.unlocked \cup {key},
        titles |-> Some(acc.unlocked \cup {key}),
        toasts |-> Append(acc.toasts, key)]

RECURSIVE UnlockFrom(_, _, _, _)
UnlockFrom(cfg, index, currentM, acc) ==
  IF index > Len(cfg) THEN acc
  ELSE UnlockFrom(cfg, index + 1, currentM,
                  IF currentM >= cfg[index].meters * 100
                  THEN UnlockOnce(acc, cfg[index].key)
                  ELSE acc)

\* currentM in 1/10000 m.
checkTitleUnlocks(cfg, unlocked, titles, currentM) ==
  UnlockFrom(cfg, 1, currentM,
             [unlocked |-> unlocked, titles |-> titles, toasts |-> << >>])

\* -------------------------------------------------------------------- stats
\* Faulty variant: the sign of the velocity is kept.
FrameDistanceSigned(velocity, pxPerCm) == PxToCm(velocity, pxPerCm)

\* frameDistanceM: Math.abs(velocityRef.current) converted, in 1/100 cm.
FrameDistance(velocity, pxPerCm) == PxToCm(Abs(velocity), pxPerCm)

\* Faulty variant: the latest value replaces the maximum.
RunningMaxLatest(previous, current) == current

\* nextMaxSpeed / nextMaxAccel: Math.max of the stored maximum and the frame's
\* value.
RunningMax(previous, current) == Max(previous, current)

AverageSpeed(runStart, currentRunTime, totalDistance) ==
  IF runStart # None /\ runStart[1] # 0 /\ currentRunTime > 0
  THEN MulDiv(totalDistance, 100, currentRunTime)
  ELSE 0

\* parseInt(localStorage.getItem('immovable_highscore_px') || '0', 10), px
StoredHighScore(st) == IF st.highscore = None THEN 0 ELSE st.highscore[1]

\* Faulty variant: only an existing record can be beaten.
HighScoreBeatenNeedsRecord(st, depth) ==
  st.highscore # None /\ depth > StoredHighScore(st) * 100

\* The test that guards the high-score write.
HighScoreBeaten(st, depth) == depth > StoredHighScore(st) * 100

\* Faulty variant: the high score written without the comparison.
HighScoreAlways(st, depth) == Some(depth \div 100)

\* "Check High Score": the stored value after a frame at this depth.
HighScoreAfter(st, depth) ==
  IF HighScoreBeaten(st, depth) THEN Some(depth \div 100) ELSE st.highscore

\* ----------------------------------------------------------------- snapshot
\* The payload of persistRunState, built from the refs given.
Payload(depth, velocity, runTime, splitList, passed, ave, maxS, total, maxA, speed, scrolls, titles) ==
  [depth |-> depth, velocity |-> velocity, runTime |-> runTime,
   splits |-> splitList, passedMilestones |-> passed, aveSpeed |-> ave,
   maxSpeed |-> maxS, totalDistance |-> total, maxAccel |-> maxA,
   currentSpeedMps |-> speed, scrollCount |-> scrolls, unlockedTitles |-> titles]

\* Faulty variant: a snapshot at every airborne frame.
ShouldPersistAlways(depth, t, lastPersistAt) == depth > 0

\* The condition under which animate calls persistRunState.
ShouldPersist(depth, t, lastPersistAt) ==
  depth > 0 /\ t - lastPersistAt >= PersistIntervalMs

\* Faulty variant: the snapshot is left in the store.
ClearRunStateNoop(st) == st

\* clearRunState
ClearRunState(st) == [st EXCEPT !.run = None]

\* -------------------------------------------------------------------- frame
\* animate(time): one requestAnimationFrame callback, dt ms after the last.
\* quotaExceeded: localStorage.setItem throws during this frame.  The writes
\* inside try/catch are then skipped; the high-score write is not guarded, so
\* its exception leaves animate before requestAnimationFrame is called again
\* and the loop stops (phase "stopped") with everything before it done.
FrameStep(dt, quotaExceeded) ==
  /\ phase = "mounted"
  /\ updateQueue = << >>
  /\ LET t == time + dt
         dtSec == DtSec(lastTimeRef, t)
         directDelta == IF inertiaEnabled THEN 0 ELSE inputDeltaRef
         v0 == FrameVelocity(inertiaEnabled, velocityRef, inputDeltaRef)
         dir == Sign(v0)
         dirChanged == dir # 0 /\ dir # lastScrollDir
         lastMove1 == IF IsMoving(v0, directDelta) THEN Some(t) ELSE lastMoveTimeRef
         allowGravity == IdleMs(lastMove1, t) >= IDLE_GRAVITY_DELAY_MS
     IN
     \E pxPerSec \in {PxPerSec(Abs(v0), dtSec)} :
     \E p \in {HardFloor(PhysicsStep(inertiaEnabled, depthRef, v0, directDelta,
                                     allowGravity))} :
     \E runStart \in {RunStartAfter(p.depth, runStartTimeRef, t)} :
     LET accelVal == AccelVal(pxPerSec, lastVelocity, dtSec)
         landing == p.depth <= 0 /\ runStartTimeRef # None
         takeoff == p.depth > 0 /\ runStartTimeRef = None
         reset == RunDataReset(landing, takeoff)
         active == runStart # None
         currentRunTime == IF active THEN t - runStart[1] ELSE 0
         currentCm == PxToCm(p.depth, PxPerCm)
         passed0 == IF reset THEN {} ELSE passedMilestonesRef
         store1 == IF landing THEN ClearRunState(store) ELSE store
         runTime1 == IF active THEN currentRunTime
                     ELSE IF landing THEN 0 ELSE runTimeRef
         splitsRef1 == IF reset THEN << >> ELSE splitsRef
         scrolls1 == IF landing THEN 0 ELSE scrollCountRef
         persist == ShouldPersist(p.depth, t, lastRunPersistAtRef)
     IN
     \E crossed \in {IF active THEN CrossedMilestones(currentCm, passed0)
                     ELSE << >>} :
     \E unl \in {IF active
                 THEN checkTitleUnlocks(config, unlockedTitlesRef, store1.titles,
                                        currentCm)
                 ELSE [unlocked |-> unlockedTitlesRef, titles |-> store1.titles,
                       toasts |-> << >>]} :
     \E total \in {(IF reset THEN 0 ELSE totalDistanceRef)
                   + FrameDistance(p.velocity, PxPerCm)} :
     \E speedMps \in {SpeedMps(pxPerSec, PxPerCm)} :
     \E maxS \in {RunningMax(IF reset THEN 0 ELSE maxSpeedRef, speedMps)} :
     \E maxA \in {RunningMax(IF reset THEN 0 ELSE maxAccelRef,
                             AccelMps2(accelVal, PxPerCm))} :
     \E ave \in {AverageSpeed(runStart, currentRunTime, total)} :
     LET store2 == IF quotaExceeded THEN store1
                   ELSE [store1 EXCEPT !.titles = unl.titles]
         store3 == IF persist /\ ~quotaExceeded
                   THEN [store2 EXCEPT !.run =
                           Some(Payload(p.depth, p.velocity, runTime1, splitsRef1,
                                        passed0 \cup SeqRange(crossed), ave, maxS,
                                        total, maxA, speedMps, scrolls1,
                                        unl.unlocked))]
                   ELSE store2
         thrown == quotaExceeded /\ HighScoreBeaten(store3, p.depth)
     IN  /\ time' = t
         /\ lastTimeRef' = Some(t)
         /\ inputDeltaRef' = IF inertiaEnabled THEN inputDeltaRef ELSE 0
         /\ lastScrollDir' = IF dirChanged THEN dir ELSE lastScrollDir
         /\ lastVelocity' = pxPerSec
         /\ lastMoveTimeRef' = IF landing THEN None ELSE lastMove1
         /\ depthRef' = p.depth
         /\ velocityRef' = p.velocity
         /\ runStartTimeRef' = runStart
         /\ runTimeRef' = runTime1
         /\ passedMilestonesRef' = passed0 \cup SeqRange(crossed)
         /\ splitsRef' = splitsRef1
         /\ updateQueue' =
              (IF dirChanged THEN << [op |-> "incScroll"] >> ELSE << >>)
              \o (IF reset THEN << [op |-> "setSplits", value |-> << >>] >>
                  ELSE << >>)
              \o SplitOps(crossed, currentRunTime)
         /\ unlockedTitlesRef' = unl.unlocked
         /\ toastCalls' = unl.toasts
         /\ totalDistanceRef' = total
         /\ totalDistanceStatRef' = total
         /\ currentSpeedMpsRef' = speedMps
         /\ maxSpeedRef' = maxS
         /\ maxAccelRef' = maxA
         /\ aveSpeedRef' = ave
         /\ scrollCountRef' = scrolls1
         /\ lastRunPersistAtRef' = IF persist THEN t ELSE lastRunPersistAtRef
         /\ store' = IF thrown THEN store3
                     ELSE [store3 EXCEPT
                             !.highscore = HighScoreAfter(store3, p.depth)]
         /\ phase' = IF thrown THEN "stopped" ELSE phase
  /\ ticks' = ticks + 1
  /\ lastOp' = "tick"
  /\ UNCHANGED << config, spacingChecks, inertiaEnabled, autoPxPerCm,
                  calibratedPxPerCm, showCalibration, showTitleGallery, pendingResume, splits,
                  scrollCount, events >>

\* A frame, while the number of frames explored is below its bound.
Frame(dt, quotaExceeded) == ticks < MaxTicks /\ FrameStep(dt, quotaExceeded)

\* A frame with a working store.
Tick(dt) == Frame(dt, FALSE)

\* The component is mounted; its listeners outlive a stopped animation loop.
PageAlive == phase \in {"mounted", "stopped"}

\* React runs the updaters the frame queued and commits the result.  Updates
\* made in a requestAnimationFrame callback are batched and flushed when the
\* callback's task ends, so the commit precedes the next frame and the next
\* input event: every other action waits for an empty queue.
Render ==
  /\ PageAlive
  /\ updateQueue # << >>
  /\ LET st == RunUpdaters(updateQueue,
                 [splits |-> splits, splitsRef |-> splitsRef,
                  scrollCount |-> scrollCount, scrollCountRef |-> scrollCountRef])
     IN  /\ splits' = st.splits
         /\ splitsRef' = st.splitsRef
         /\ scrollCount' = st.scrollCount
         /\ scrollCountRef' = st.scrollCountRef
  /\ updateQueue' = << >>
  /\ lastOp' = "render"
  /\ UNCHANGED << phase, config, spacingChecks, time, store, inertiaEnabled, autoPxPerCm,
                  calibratedPxPerCm, showCalibration, showTitleGallery, pendingResume, physVars,
                  runStartTimeRef, runTimeRef, passedMilestonesRef,
                  totalDistanceRef, totalDistanceStatRef, aveSpeedRef, maxSpeedRef,
                  maxAccelRef, currentSpeedMpsRef, unlockedTitlesRef,
                  lastRunPersistAtRef, toastCalls, ticks, events >>

\* ------------------------------------------------------------------- inputs
\* Faulty variant: the resume prompt does not block input.
isOverlayOpenNoPrompt == showTitleGallery \/ showCalibration

\* Faulty variant: the title gallery does not block input.
isOverlayOpenNoGallery == showCalibration \/ pendingResume # None

\* isOverlayOpen of the input effect.  A wheel or touch event that arrives
\* while it holds returns at once: it is no step of the model.
isOverlayOpen == showTitleGallery \/ showCalibration \/ pendingResume # None

CanHandleEvent ==
  /\ PageAlive
  /\ updateQueue = << >>
  /\ events < MaxEvents

\* Faulty variant: the handler pushes the velocity in direct mode too.
VelocityAfterInputAlways(inertia, velocity, delta, gain) ==
  velocity + Sign(delta) * MulDiv(Abs(delta), gain, 100)

\* velocityRef after an input handler: pushed by the scaled delta in inertia
\* mode, left alone in direct mode.
VelocityAfterInput(inertia, velocity, delta, gain) ==
  IF inertia THEN velocity + Sign(delta) * MulDiv(Abs(delta), gain, 100)
  ELSE velocity

\* handleWheel with the normalised delta
handleWheel(delta) ==
  /\ CanHandleEvent
  /\ ~isOverlayOpen
  /\ velocityRef' = VelocityAfterInput(inertiaEnabled, velocityRef, delta, WheelGain)
  /\ inputDeltaRef' = IF inertiaEnabled THEN inputDeltaRef ELSE inputDeltaRef + delta
  /\ events' = events + 1
  /\ lastOp' = "event"
  /\ UNCHANGED << phase, config, spacingChecks, time, store, reactVars, depthRef, lastVelocity,
                  lastTimeRef, lastMoveTimeRef, lastScrollDir, runVars,
                  unlockedTitlesRef, lastRunPersistAtRef, toastCalls, ticks >>

\* onTouchMove; delta is touchStartY - touchY
onTouchMove(delta) ==
  /\ CanHandleEvent
  /\ ~isOverlayOpen
  /\ velocityRef' = VelocityAfterInput(inertiaEnabled, velocityRef, delta, TouchGain)
  /\ inputDeltaRef' = IF inertiaEnabled THEN inputDeltaRef ELSE inputDeltaRef + delta
  /\ events' = events + 1
  /\ lastOp' = "event"
  /\ UNCHANGED << phase, config, spacingChecks, time, store, reactVars, depthRef, lastVelocity,
                  lastTimeRef, lastMoveTimeRef, lastScrollDir, runVars,
                  unlockedTitlesRef, lastRunPersistAtRef, toastCalls, ticks >>

\* The inertia checkbox: setInertiaEnabled and the effect that stores the flag.
ToggleInertia ==
  /\ CanHandleEvent
  /\ ~isOverlayOpen
  /\ inertiaEnabled' = ~inertiaEnabled
  /\ store' = [store EXCEPT !.inertia = Some(~inertiaEnabled)]
  /\ events' = events + 1
  /\ lastOp' = "event"
  /\ UNCHANGED << phase, config, spacingChecks, time, autoPxPerCm, calibratedPxPerCm,
                  showCalibration, showTitleGallery, pendingResume, splits, scrollCount, updateQueue,
                  physVars, runVars, unlockedTitlesRef, lastRunPersistAtRef,
                  toastCalls, ticks >>

\* -------------------------------------------------------------- calibration
OpenCalibration ==
  /\ CanHandleEvent
  /\ ~isOverlayOpen
  /\ showCalibration' = TRUE
  /\ events' = events + 1
  /\ lastOp' = "event"
  /\ UNCHANGED << phase, config, spacingChecks, time, store, inertiaEnabled, autoPxPerCm,
                  calibratedPxPerCm, showTitleGallery, pendingResume, splits,
                  scrollCount, updateQueue, physVars, runVars, unlockedTitlesRef,
                  lastRunPersistAtRef, toastCalls, ticks >>

\* onTitleGalleryClick of the HUD: the gallery of titles opens.
OpenTitleGallery ==
  /\ CanHandleEvent
  /\ ~isOverlayOpen
  /\ showTitleGallery' = TRUE
  /\ events' = events + 1
  /\ lastOp' = "event"
  /\ UNCHANGED << phase, config, spacingChecks, time, store, inertiaEnabled, autoPxPerCm,
                  calibratedPxPerCm, showCalibration, pendingResume, splits,
                  scrollCount, updateQueue, physVars, runVars, unlockedTitlesRef,
                  lastRunPersistAtRef, toastCalls, ticks >>

\* onClose of TitleGallery
CloseTitleGallery ==
  /\ CanHandleEvent
  /\ showTitleGallery
  /\ showTitleGallery' = FALSE
  /\ events' = events + 1
  /\ lastOp' = "event"
  /\ UNCHANGED << phase, config, spacingChecks, time, store, inertiaEnabled, autoPxPerCm,
                  calibratedPxPerCm, showCalibration, pendingResume, splits,
                  scrollCount, updateQueue, physVars, runVars, unlockedTitlesRef,
                  lastRunPersistAtRef, toastCalls, ticks >>

\* CardCalibration.handleConfirm in ruler mode at slider position scale/1000.
RulerPxPerCm(initialPxPerCm, scale) ==
  MulDiv(RULER_CM * initialPxPerCm, scale, 1000) \div RULER_CM

\* handleConfirm in coin mode: the displayed diameter over the coin's.
CoinPxPerCm(initialPxPerCm, scale, diameter) ==
  MulDiv(diameter * initialPxPerCm, scale, 1000) \div diameter

\* Faulty variant: the dialog starts from the factor in effect.
InitialPxPerCmInEffect == PxPerCm

\* The initialPxPerCm prop App hands to CardCalibration.
InitialPxPerCm == autoPxPerCm

\* handleConfirm followed by handleCalibration; coin = 0 is the ruler.
handleCalibration(scale, coin) ==
  /\ CanHandleEvent
  /\ showCalibration
  /\ LET pxPerCm == IF coin = 0 THEN RulerPxPerCm(InitialPxPerCm, scale)
                    ELSE CoinPxPerCm(InitialPxPerCm, scale, coin)
     IN  /\ calibratedPxPerCm' = Some(pxPerCm)
         /\ store' = [store EXCEPT !.cal = Some(pxPerCm)]
  /\ showCalibration' = FALSE
  /\ events' = events + 1
  /\ lastOp' = IF calibratedPxPerCm = None THEN "calibrate" ELSE "recalibrate"
  /\ UNCHANGED << phase, config, spacingChecks, time, inertiaEnabled, autoPxPerCm, pendingResume,
                  showTitleGallery, splits, scrollCount, updateQueue, physVars,
                  runVars, unlockedTitlesRef, lastRunPersistAtRef, toastCalls,
                  ticks >>

\* Faulty variant: the stored override survives the reset.
RemoveCalibrationNoop(st) == st

\* localStorage.removeItem('immovable_calibrated_px_per_cm')
RemoveCalibration(st) == [st EXCEPT !.cal = None]

\* The reset button, shown while a calibration is in effect.
handleResetCalibration ==
  /\ CanHandleEvent
  /\ ~isOverlayOpen
  /\ calibratedPxPerCm # None
  /\ calibratedPxPerCm' = None
  /\ store' = RemoveCalibration(store)
  /\ events' = events + 1
  /\ lastOp' = "resetcal"
  /\ UNCHANGED << phase, config, spacingChecks, time, inertiaEnabled, autoPxPerCm, showCalibration, showTitleGallery,
                  pendingResume, splits, scrollCount, updateQueue, physVars,
                  runVars, unlockedTitlesRef, lastRunPersistAtRef, toastCalls,
                  ticks >>

\* ------------------------------------------------------------------- resume
\* Faulty variant: the timer restarted at the moment of the resume.
ResumeRunStartNow(now, runTime) == Some(now)

\* runStartTimeRef as handleResumeRun sets it.
ResumeRunStart(now, runTime) == Some(now - Max(0, runTime))

\* The snapshot is the parsed JSON text persistRunState wrote: finite numbers,
\* strings and arrays of them come back from JSON.parse as they went in.
handleResumeRun ==
  /\ CanHandleEvent
  /\ pendingResume # None
  /\ LET snap == pendingResume[1]
         now == time
     IN  /\ depthRef' = Max(0, snap.depth)
         /\ velocityRef' = snap.velocity
         /\ runStartTimeRef' = ResumeRunStart(now, snap.runTime)
         /\ lastTimeRef' = None
         /\ lastMoveTimeRef' = Some(now)
         /\ passedMilestonesRef' = snap.passedMilestones
         /\ splitsRef' = snap.splits
         /\ runTimeRef' = Max(0, snap.runTime)
         /\ aveSpeedRef' = Max(0, snap.aveSpeed)
         /\ maxSpeedRef' = Max(0, snap.maxSpeed)
         /\ totalDistanceRef' = Max(0, snap.totalDistance)
         /\ totalDistanceStatRef' = Max(0, snap.totalDistance)
         /\ maxAccelRef' = Max(0, snap.maxAccel)
         /\ currentSpeedMpsRef' = Max(0, snap.currentSpeedMps)
         /\ scrollCountRef' = Max(0, snap.scrollCount)
         /\ unlockedTitlesRef' = snap.unlockedTitles
         /\ splits' = snap.splits
         /\ scrollCount' = Max(0, snap.scrollCount)
         /\ store' = [store EXCEPT !.titles = Some(snap.unlockedTitles)]
  /\ pendingResume' = None
  /\ events' = events + 1
  /\ lastOp' = "resume"
  /\ UNCHANGED << phase, config, spacingChecks, time, inertiaEnabled, autoPxPerCm,
                  calibratedPxPerCm, showCalibration, showTitleGallery, updateQueue, inputDeltaRef,
                  lastVelocity, lastScrollDir, lastRunPersistAtRef, toastCalls,
                  ticks >>

handleStartFresh ==
  /\ CanHandleEvent
  /\ pendingResume # None
  /\ store' = ClearRunState(store)
  /\ pendingResume' = None
  /\ events' = events + 1
  /\ lastOp' = "event"
  /\ UNCHANGED << phase, config, spacingChecks, time, inertiaEnabled, autoPxPerCm,
                  calibratedPxPerCm, showCalibration, showTitleGallery, splits, scrollCount,
                  updateQueue, physVars, runVars, unlockedTitlesRef,
                  lastRunPersistAtRef, toastCalls, ticks >>

\* ------------------------------------------------------------ load and mount
\* The values useState / useRef give the component when it is constructed.
MemoryReset ==
  /\ inertiaEnabled' = TRUE
  /\ autoPxPerCm' = DEFAULT_PX_PER_CM
  /\ calibratedPxPerCm' = None
  /\ showCalibration' = FALSE
  /\ showTitleGallery' = FALSE
  /\ pendingResume' = None
  /\ splits' = << >>
  /\ scrollCount' = 0
  /\ updateQueue' = << >>
  /\ depthRef' = 0
  /\ velocityRef' = 0
  /\ inputDeltaRef' = 0
  /\ lastVelocity' = 0
  /\ lastTimeRef' = None
  /\ lastMoveTimeRef' = None
  /\ lastScrollDir' = 0
  /\ runStartTimeRef' = None
  /\ runTimeRef' = 0
  /\ passedMilestonesRef' = {}
  /\ splitsRef' = << >>
  /\ totalDistanceRef' = 0
  /\ totalDistanceStatRef' = 0
  /\ aveSpeedRef' = 0
  /\ maxSpeedRef' = 0
  /\ maxAccelRef' = 0
  /\ currentSpeedMpsRef' = 0
  /\ scrollCountRef' = 0
  /\ unlockedTitlesRef' = {}
  /\ lastRunPersistAtRef' = 0
  /\ toastCalls' = << >>

\* The user reloads (or reopens) the page: memory is lost, the store stays.
Reload ==
  /\ CanHandleEvent
  /\ phase' = "loading"
  /\ time' = 0
  /\ MemoryReset
  /\ events' = events + 1
  /\ lastOp' = "reload"
  /\ UNCHANGED << config, store, spacingChecks, ticks >>

\* parseFloat("Infinity"): stands above every finite number of the model.
Infinity == 2147483647
IsFinite(v) == v # Infinity

\* Faulty variant: the stored factor taken as it is.
LoadCalibrationUnchecked(st, current) ==
  IF st.cal # None THEN st.cal ELSE current

\* "Load persisted settings": the stored factor when it is finite and positive.
LoadCalibration(st, current) ==
  IF st.cal # None /\ IsFinite(st.cal[1]) /\ st.cal[1] > 0 THEN st.cal
  ELSE current

\* Faulty variant: the stored list is not read.
LoadTitlesIgnored(st, current) == current

\* "Load persisted settings": the stored list of unlocked titles, unless
\* JSON.parse throws on the text under the key.
LoadTitles(st, current) ==
  IF "titles" \notin st.unparseable /\ st.titles # None THEN st.titles[1]
  ELSE current

\* "Load persisted settings": the snapshot offered for resuming, if any.
LoadPendingResume(st) ==
  IF /\ "run" \notin st.unparseable
     /\ st.run # None
     /\ IsFinite(st.run[1].depth)
     /\ st.run[1].depth > 0
  THEN st.run ELSE None

\* Faulty variant: text that does not parse is left under its key.
RemoveUnparseableNoop(st) == st

\* The two catch blocks of "Load persisted settings": removeItem for a key
\* whose text made JSON.parse throw.
RemoveUnparseable(st) == [st EXCEPT !.unparseable = {}]

\* Module evaluation (the spacing loop) and, when it does not throw, the
\* mount effects of App.
Startup ==
  /\ phase = "loading"
  /\ spacingChecks' = spacingChecks + 1
  /\ lastOp' = "startup"
  /\ IF SpacingThrows(config)
     THEN /\ phase' = "failed"
          /\ UNCHANGED << config, time, store, reactVars, physVars, runVars,
                          unlockedTitlesRef, lastRunPersistAtRef, toastCalls,
                          ticks, events >>
     ELSE /\ phase' = "mounted"
          /\ inertiaEnabled' =
               (IF store.inertia # None THEN store.inertia[1] ELSE inertiaEnabled)
          /\ store' = [RemoveUnparseable(store) EXCEPT
                          !.inertia = Some(inertiaEnabled')]
          /\ calibratedPxPerCm' = LoadCalibration(store, calibratedPxPerCm)
          /\ unlockedTitlesRef' = LoadTitles(store, unlockedTitlesRef)
          /\ pendingResume' = LoadPendingResume(store)
          /\ \E w \in ProbeWidths : autoPxPerCm' = AutoDetect(w)
          /\ UNCHANGED << config, time, showCalibration, showTitleGallery, splits, scrollCount,
                          updateQueue, physVars, runVars, lastRunPersistAtRef,
                          toastCalls, ticks, events >>

\* ------------------------------------------------------------ specifications
MemoryInit ==
  /\ requestRef = 0
  /\ pendingFrames = {}
  /\ nextHandle = 1
  /\ inertiaEnabled = TRUE
  /\ autoPxPerCm = DEFAULT_PX_PER_CM
  /\ calibratedPxPerCm = None
  /\ showCalibration = FALSE
  /\ showTitleGallery = FALSE
  /\ pendingResume = None
  /\ splits = << >>
  /\ scrollCount = 0
  /\ updateQueue = << >>
  /\ depthRef = 0
  /\ velocityRef = 0
  /\ inputDeltaRef = 0
  /\ lastVelocity = 0
  /\ lastTimeRef = None
  /\ lastMoveTimeRef = None
  /\ lastScrollDir = 0
  /\ runStartTimeRef = None
  /\ runTimeRef = 0
  /\ passedMilestonesRef = {}
  /\ splitsRef = << >>
  /\ totalDistanceRef = 0
  /\ totalDistanceStatRef = 0
  /\ aveSpeedRef = 0
  /\ maxSpeedRef = 0
  /\ maxAccelRef = 0
  /\ currentSpeedMpsRef = 0
  /\ scrollCountRef = 0
  /\ unlockedTitlesRef = {}
  /\ lastRunPersistAtRef = 0
  /\ toastCalls = << >>

\* A first visit: the page is about to evaluate its modules, the store is empty.
Init ==
  /\ phase = "loading"
  /\ config = ACHIEVEMENTS
  /\ time = 0
  /\ store = EmptyStore
  /\ MemoryInit
  /\ spacingChecks = 0
  /\ lastOp = "init"
  /\ ticks = 0
  /\ events = 0

Next ==
  \/ Startup /\ UNCHANGED rafVars
  \/ \E dt \in DtChoices : Tick(dt) /\ UNCHANGED rafVars
  \/ Render /\ UNCHANGED rafVars
  \/ \E delta \in WheelDeltas : handleWheel(delta) /\ UNCHANGED rafVars
  \/ \E delta \in TouchDeltas : onTouchMove(delta) /\ UNCHANGED rafVars
  \/ ToggleInertia /\ UNCHANGED rafVars
  \/ OpenCalibration /\ UNCHANGED rafVars
  \/ \E scale \in ScaleChoices, coin \in {0} \cup CoinDiameters :
       handleCalibration(scale, coin) /\ UNCHANGED rafVars
  \/ handleResetCalibration /\ UNCHANGED rafVars
  \/ handleResumeRun /\ UNCHANGED rafVars
  \/ handleStartFresh /\ UNCHANGED rafVars
  \/ Reload /\ UNCHANGED rafVars

Spec == Init /\ [][Next]_vars

\* Candidate achievement tables: every list of at most MaxCfgLen thresholds.
TableOf(f) == [i \in DOMAIN f |-> [key |-> ToString(i), meters |-> f[i]]]

CandidateConfigs ==
  { TableOf(f) : f \in UNION { [1..n -> CfgMeters] : n \in 0..MaxCfgLen } }

\* The loader tried on every candidate table; each page that mounts runs a
\* short session.
InitLoad ==
  /\ phase = "loading"
  /\ config \in CandidateConfigs
  /\ time = 0
  /\ store = EmptyStore
  /\ MemoryInit
  /\ spacingChecks = 0
  /\ lastOp = "init"
  /\ ticks = MaxTicks - 2
  /\ events = MaxEvents - 1

NextLoad ==
  \/ Startup /\ UNCHANGED rafVars
  \/ \E dt \in DtChoices : Tick(dt) /\ UNCHANGED rafVars
  \/ Render /\ UNCHANGED rafVars
  \/ \E delta \in WheelDeltas : handleWheel(delta) /\ UNCHANGED rafVars

SpecLoad == InitLoad /\ [][NextLoad]_vars

\* What a visitor may find under the calibration key: nothing, a factor
\* confirmed earlier at scale 0.5, or text that parses to 0, a negative
\* number or Infinity.
StoredCalChoices ==
  {None, Some(1890), Some(0), Some(0 - DEFAULT_PX_PER_CM), Some(Infinity)}

InitCal ==
  /\ phase = "loading"
  /\ config = ACHIEVEMENTS
  /\ time = 0
  /\ store \in {[EmptyStore EXCEPT !.cal = c] : c \in StoredCalChoices}
  /\ MemoryInit
  /\ spacingChecks = 0
  /\ lastOp = "init"
  /\ ticks = 0
  /\ events = 0

NextCal ==
  \/ Startup /\ UNCHANGED rafVars
  \/ \E dt \in DtChoices : Tick(dt) /\ UNCHANGED rafVars
  \/ Render /\ UNCHANGED rafVars
  \/ \E delta \in WheelDeltas : handleWheel(delta) /\ UNCHANGED rafVars
  \/ OpenCalibration /\ UNCHANGED rafVars
  \/ \E scale \in ScaleChoices, coin \in {0} \cup CoinDiameters :
       handleCalibration(scale, coin) /\ UNCHANGED rafVars
  \/ handleResetCalibration /\ UNCHANGED rafVars
  \/ Reload /\ UNCHANGED rafVars

\* The page opened over a store that already holds calibration text.
SpecCal == InitCal /\ [][NextCal]_vars

\* The page in a browser whose store may refuse writes (quota exhausted).
NextFail ==
  \/ Startup /\ UNCHANGED rafVars
  \/ \E dt \in DtChoices, quotaExceeded \in BOOLEAN : Frame(dt, quotaExceeded) /\ UNCHANGED rafVars
  \/ Render /\ UNCHANGED rafVars
  \/ \E delta \in WheelDeltas : handleWheel(delta) /\ UNCHANGED rafVars
  \/ Reload /\ UNCHANGED rafVars

SpecFail == Init /\ [][NextFail]_vars

\* ------------------------------------------------- the animation-frame loop
\* Faulty variant: the cleanup cancels nothing.
CancelFrameNoop(pending, handle) == pending

\* cancelAnimationFrame(handle); handle 0 stands for an undefined requestRef,
\* which the cleanup does not cancel.
CancelFrame(pending, handle) == pending \ {handle}

\* animate is a new function after this step: one of its dependencies
\* inertiaEnabled and pxToCm has changed.
AnimateChanged == inertiaEnabled' # inertiaEnabled \/ PxPerCm' # PxPerCm

\* The effect on [animate] re-runs: the cleanup of the previous run cancels
\* the request in requestRef, then the new animate is requested.
RestartLoop ==
  /\ pendingFrames' = CancelFrame(pendingFrames, requestRef) \cup {nextHandle}
  /\ requestRef' = nextHandle
  /\ nextHandle' = nextHandle + 1

\* Mount: the effect requests the first animate; when the loaded settings
\* change a dependency the re-render restarts the loop at once.
RafStartup ==
  /\ Startup
  /\ IF phase' # "mounted" THEN UNCHANGED rafVars
     ELSE IF AnimateChanged
     THEN /\ pendingFrames' = CancelFrame({nextHandle}, nextHandle)
                                \cup {nextHandle + 1}
          /\ requestRef' = nextHandle + 1
          /\ nextHandle' = nextHandle + 2
     ELSE /\ pendingFrames' = {nextHandle}
          /\ requestRef' = nextHandle
          /\ nextHandle' = nextHandle + 1

\* The browser runs one requested callback; animate requests the next frame
\* as its last statement.
RafFrame(dt) ==
  \E h \in pendingFrames :
    /\ Tick(dt)
    /\ pendingFrames' = (pendingFrames \ {h}) \cup {nextHandle}
    /\ requestRef' = nextHandle
    /\ nextHandle' = nextHandle + 1

\* A handler that may replace animate, followed by the re-run of the effect.
RafToggleInertia == ToggleInertia /\ RestartLoop

RafCalibration(scale, coin) ==
  /\ handleCalibration(scale, coin)
  /\ IF AnimateChanged THEN RestartLoop ELSE UNCHANGED rafVars

\* Reload discards the document together with its frame queue.
RafReload ==
  /\ Reload
  /\ requestRef' = 0
  /\ pendingFrames' = {}
  /\ nextHandle' = 1

\* The view is torn down: the cleanup of the effect on [animate] runs.
Unmount ==
  /\ PageAlive
  /\ updateQueue = << >>
  /\ phase' = "unmounted"
  /\ pendingFrames' = CancelFrame(pendingFrames, requestRef)
  /\ lastOp' = "unmount"
  /\ UNCHANGED << config, time, store, reactVars, physVars, runVars,
                  unlockedTitlesRef, lastRunPersistAtRef, toastCalls,
                  spacingChecks, ticks, events, requestRef, nextHandle >>

\* One wheel event is enough to move between the frames.
RafWheelDeltas == {300000}

NextRaf ==
  \/ RafStartup
  \/ \E dt \in DtChoices : RafFrame(dt)
  \/ Render /\ UNCHANGED rafVars
  \/ \E delta \in RafWheelDeltas : handleWheel(delta) /\ UNCHANGED rafVars
  \/ RafToggleInertia
  \/ OpenCalibration /\ UNCHANGED rafVars
  \/ \E scale \in ScaleChoices : RafCalibration(scale, 0)
  \/ RafReload
  \/ Unmount

\* The page with its animation-frame queue followed.
SpecRaf == Init /\ [][NextRaf]_vars

\* -------------------------------------------------------------- properties
CurrentCm == PxToCm(depthRef, PxPerCm)
Active == runStartTimeRef # None
AfterTick == lastOp = "tick"
QueuedAdds == SelectSeq(updateQueue, LAMBDA u : u.op = "addSplit")
QueuedReset == \E i \in 1..Len(updateQueue) : updateQueue[i].op = "setSplits"
\* The frame just run grounded an active run.
JustLanded == AfterTick /\ depthRef = 0 /\ QueuedReset
StoredTitles(st) == IF st.titles = None THEN {} ELSE st.titles[1]
Thresholds(list) == {list[i].distanceCm : i \in 1..Len(list)}

\* C1: depth is never negative, whatever wheel/touch events, inertia toggles
\* and frames have happened, in inertia mode and in direct mode.
C1_DepthNonNegative == depthRef >= 0

\* An inertia-mode frame whose velocity carried depth to the floor.
C1_Witness ==
  AfterTick /\ inertiaEnabled /\ depthRef = 0 /\ lastVelocity > 0 /\ JustLanded

\* C2: after every frame the run is active (runStartTimeRef set) exactly
\* when depth > 0.
C2_ActiveIffAirborne == AfterTick => (Active <=> depthRef > 0)

C2_Witness == JustLanded /\ ~Active

\* C3: the frame that grounds an active run ends with totalDistance, maxSpeed,
\* maxAccel and averageSpeed 0 and with no splits and no milestone progress.
C3_ZeroedAtLanding ==
  JustLanded =>
    /\ totalDistanceStatRef = 0
    /\ maxSpeedRef = 0
    /\ maxAccelRef = 0
    /\ aveSpeedRef = 0
    /\ EffectiveSplits = << >>
    /\ splitsRef = << >>
    /\ passedMilestonesRef = {}

\* C4: no step removes an unlocked achievement key, neither from the stored
\* list nor (while the page lives) from the set in memory.
C4_UnlockedOnlyGrows ==
  [][ /\ StoredTitles(store) \subseteq StoredTitles(store')
      /\ (lastOp' # "reload" => unlockedTitlesRef \subseteq unlockedTitlesRef')
    ]_vars

\* C5: the frame that grounds an active run changes neither the unlocked
\* achievements, nor the high score, nor the calibration (in memory or stored).
C5_LandingKeepsLifetimeState ==
  [][ (lastOp' = "tick" /\ Active /\ runStartTimeRef' = None) =>
        /\ unlockedTitlesRef' = unlockedTitlesRef
        /\ store'.titles = store.titles
        /\ store'.highscore = store.highscore
        /\ store'.cal = store.cal
        /\ calibratedPxPerCm' = calibratedPxPerCm
        /\ autoPxPerCm' = autoPxPerCm
    ]_vars

C5_Witness ==
  JustLanded /\ unlockedTitlesRef # {} /\ StoredHighScore(store) > 0

\* C6: the thresholds a frame records are exactly those at or below the
\* converted depth that the run had not recorded before, queued in ascending
\* order, each with that frame's elapsed run time.
C6_CrossedInOneFrame ==
  [][ (lastOp' = "tick" /\ runStartTimeRef' # None) =>
        LET before == IF Active THEN passedMilestonesRef ELSE {}
            adds == QueuedAdds'
        IN  /\ Thresholds(adds) =
                 {m \in SeqRange(MILESTONES_CM) : m * 100 <= CurrentCm'} \ before
            /\ \A i \in 1..Len(adds) : adds[i].timeMs = runTimeRef'
            /\ \A i, j \in 1..Len(adds) :
                 i < j => adds[i].distanceCm < adds[j].distanceCm
    ]_vars

\* A frame of a run already under way that crosses at least three thresholds.
C6_Witness == AfterTick /\ Active /\ ~QueuedReset /\ Len(QueuedAdds) >= 3

\* C7: a run holds at most one split per threshold, and while the run stays
\* active no recorded split changes or disappears.
C7_SplitsAppendOnce ==
  [][ LET before == EffectiveSplits
          after == SplitsOnceRendered(updateQueue', splits')
      IN  /\ \A i, j \in 1..Len(after) :
               after[i].distanceCm = after[j].distanceCm => i = j
          /\ (Active /\ runStartTimeRef' # None) =>
               SeqRange(before) \subseteq SeqRange(after)
    ]_vars

\* A later frame of the run finds the converted depth below a recorded split.
C7_Witness ==
  /\ AfterTick /\ Active /\ splits # << >>
  /\ \E i \in 1..Len(splits) : splits[i].distanceCm * 100 > CurrentCm

EvalDistances == {0, 776999, 777000, 3330000}

\* C9: once a frame has evaluated checkTitleUnlocks at a distance, evaluating
\* it again at that distance or a smaller one adds no key, stores nothing and
\* notifies nobody.
C9_UnlockIdempotent ==
  (AfterTick /\ Active) =>
    \A d \in EvalDistances \cup {CurrentCm} :
      d <= CurrentCm =>
        LET r == checkTitleUnlocks(config, unlockedTitlesRef, store.titles, d)
        IN  /\ r.unlocked = unlockedTitlesRef
            /\ r.titles = store.titles
            /\ r.toasts = << >>

\* A frame that evaluated a distance whose achievement was unlocked earlier.
C9_Witness ==
  /\ AfterTick /\ Active /\ toastCalls = << >>
  /\ unlockedTitlesRef # {}
  /\ CurrentCm >= config[1].meters * 100

IsAscending(cfg) ==
  \A i \in 2..Len(cfg) : cfg[i - 1].meters <= cfg[i].meters

\* C10: an ascending table fails to load exactly when two consecutive
\* thresholds are less than the minimum spacing apart, and the loop runs once
\* per page load, never in a frame.
C10_SpacingCheckedAtLoad ==
  /\ (phase # "loading" /\ IsAscending(config)) =>
       (phase = "failed" <=>
          \E i \in 2..Len(config) :
            config[i].meters - config[i - 1].meters < MinSpacing)
  /\ spacingChecks = (IF phase = "loading" THEN 0 ELSE 1)

\* A table rejected for its last pair alone.
C10_Witness ==
  /\ phase = "failed" /\ Len(config) = 3
  /\ config[2].meters - config[1].meters >= MinSpacing
  /\ config[3].meters - config[2].meters >= 0

\* C11: a resume sets depth, velocity and splits to the snapshot's values and
\* the run time to the snapshot's elapsed time; every later frame of the run
\* keeps the timer's start, so the elapsed time never falls below the
\* snapshot's, and queues no take-off reset.
C11_ResumeContinuesRun ==
  [][ /\ lastOp' = "resume" =>
           LET snap == pendingResume[1]
           IN  /\ depthRef' = snap.depth
               /\ velocityRef' = snap.velocity
               /\ splits' = snap.splits
               /\ splitsRef' = snap.splits
               /\ runTimeRef' = snap.runTime
               /\ runStartTimeRef' # None
      /\ (lastOp' = "tick" /\ Active /\ runStartTimeRef' # None) =>
           /\ runStartTimeRef' = runStartTimeRef
           /\ runTimeRef' >= runTimeRef
           /\ ~QueuedReset'
    ]_vars

\* A frame of a resumed run (the page's clock restarts at 0 on a reload, so
\* only a resume makes the timer start before 0) that came back with splits.
C11_Witness ==
  /\ AfterTick /\ Active /\ runStartTimeRef[1] < 0
  /\ splits # << >> /\ runTimeRef > 2000

\* C12: while the resume prompt is pending the run stays grounded at depth 0
\* and the stored snapshot is the one offered, untouched.
C12_NoAutomaticResume ==
  pendingResume # None =>
    /\ depthRef = 0
    /\ ~Active
    /\ store.run = pendingResume

\* A frame has run while the prompt was pending.
C12_Witness == AfterTick /\ pendingResume # None /\ depthRef = 0

\* C13: a snapshot is written only by a frame that ends airborne, at least
\* PersistIntervalMs after the previous write of this page (kept in
\* lastRunPersistAtRef, which nothing else advances).
C13_SnapshotsSpaced ==
  [][ LET written == store'.run # None /\ store'.run # store.run
      IN  /\ written =>
                /\ lastOp' = "tick"
                /\ runStartTimeRef' # None /\ depthRef' > 0
                /\ time' - lastRunPersistAtRef >= PersistIntervalMs
                /\ lastRunPersistAtRef' = time'
          /\ (lastRunPersistAtRef' # lastRunPersistAtRef) =>
                (written \/ lastOp' = "reload")
          /\ lastRunPersistAtRef' <= time'
    ]_vars

\* The second frame of a page took the second snapshot of a run whose
\* take-off frame took the first.
C13_Witness ==
  /\ AfterTick /\ ticks = 2 /\ Active
  /\ runStartTimeRef[1] >= PersistIntervalMs
  /\ runTimeRef >= PersistIntervalMs
  /\ lastRunPersistAtRef = time
  /\ store.run # None /\ store.run[1].runTime = runTimeRef

\* C14: after a frame that ends on the ground with no resume prompt pending
\* the store holds no snapshot, and a stored snapshot always has depth > 0.
C14_SnapshotDeletedOnGrounding ==
  /\ (AfterTick /\ depthRef = 0 /\ pendingResume = None) => store.run = None
  /\ store.run # None => store.run[1].depth > 0

\* A run that had been snapshotted lands.
C14_Witness == JustLanded /\ store.run = None /\ lastRunPersistAtRef > 0

\* C15: a frame during which the store refuses writes still completes and the
\* next frame stays scheduled.
C15_FrameSurvivesStoreFailure == AfterTick => phase = "mounted"

\* C16: confirming a calibration sets the factor to the displayed size over
\* the known size, which is the auto-estimate times the slider scale, whatever
\* factor was confirmed before; the same value goes to the store.
C16_ConfirmDoesNotCompound ==
  [][ lastOp' \in {"calibrate", "recalibrate"} =>
        /\ \E scale \in ScaleChoices :
             calibratedPxPerCm' = Some(MulDiv(autoPxPerCm, scale, 1000))
        /\ store'.cal = calibratedPxPerCm'
        /\ autoPxPerCm' = autoPxPerCm ]_vars

C16_Witness ==
  /\ lastOp = "recalibrate"
  /\ calibratedPxPerCm = Some(MulDiv(DEFAULT_PX_PER_CM, 1800, 1000))
  /\ store.cal = calibratedPxPerCm

\* C17: the factor in effect is positive and finite in every state; stored
\* text that parses to a non-positive or non-finite number is not taken over
\* at startup, the auto-estimate stays in effect.
C17_FactorPositiveFinite ==
  /\ PxPerCm > 0 /\ IsFinite(PxPerCm)
  /\ autoPxPerCm > 0 /\ IsFinite(autoPxPerCm)
  /\ (lastOp = "startup" /\ store.cal # None
        /\ (store.cal[1] <= 0 \/ ~IsFinite(store.cal[1])))
       => calibratedPxPerCm = None /\ PxPerCm = autoPxPerCm

C17_Witness ==
  /\ lastOp = "startup"
  /\ store.cal = Some(Infinity)
  /\ calibratedPxPerCm = None
  /\ PxPerCm = DEFAULT_PX_PER_CM

\* C18: a reset puts the auto-estimate in effect and removes the stored
\* override; a startup over a store without override runs on the
\* auto-estimate.
C18_ResetRevertsToAuto ==
  [][ /\ lastOp' = "resetcal" =>
           /\ calibratedPxPerCm' = None
           /\ PxPerCm' = autoPxPerCm
           /\ store'.cal = None
      /\ (lastOp' = "startup" /\ store.cal = None) =>
           calibratedPxPerCm' = None /\ PxPerCm' = autoPxPerCm' ]_vars

C18_Witness ==
  /\ lastOp = "resetcal"
  /\ calibratedPxPerCm = None
  /\ store.cal = None
  /\ PxPerCm = autoPxPerCm

\* C19 as stated: with inertia enabled every frame multiplies the velocity it
\* finds by the friction coefficient, once, whatever the frame's duration.
C19_FrictionEveryFrame ==
  [][ (lastOp' = "tick" /\ inertiaEnabled) =>
        velocityRef' = Sign(velocityRef) * MulDiv(Abs(velocityRef), FRICTION, 100)
    ]_vars

\* C19: with inertia enabled a frame that ends above the floor multiplies the
\* velocity it finds by the friction coefficient, once, whatever the frame's
\* duration; a frame that ends on the floor leaves velocity 0.
C19_FrictionOncePerFrameAboveFloor ==
  [][ (lastOp' = "tick" /\ inertiaEnabled) =>
        velocityRef' =
          (IF depthRef' > 0
           THEN Sign(velocityRef) * MulDiv(Abs(velocityRef), FRICTION, 100)
           ELSE 0) ]_vars

\* Two frames after one wheel event of 3000 px: 450 px * 0.96 * 0.96.
C19_Witness ==
  /\ AfterTick /\ inertiaEnabled
  /\ ticks = 2
  /\ velocityRef = 41472
  /\ depthRef = 43200 + 41472

C21_AverageIsDistanceOverTime ==
  AfterTick =>
    aveSpeedRef = (IF Active /\ runTimeRef > 0
                   THEN MulDiv(totalDistanceRef, 100, runTimeRef)
                   ELSE 0)

\* C22: every frame drains the pending input delta: none of it is left to be
\* applied by a later frame, also when the inertia mode was toggled between
\* the input event and the frame.
C22_FrameDrainsPendingDelta == AfterTick => inputDeltaRef = 0

\* What the spec calls RunState, without the velocity.
RunStateButVelocity ==
  << depthRef, runStartTimeRef, runTimeRef, passedMilestonesRef, splitsRef,
     totalDistanceRef, totalDistanceStatRef, aveSpeedRef, maxSpeedRef,
     maxAccelRef, currentSpeedMpsRef, scrollCountRef >>
CalibrationState == << autoPxPerCm, calibratedPxPerCm >>
HandlerOps == {"event", "resume", "calibrate", "recalibrate", "resetcal"}

\* C23 as stated: no input handler or other callback changes the run state,
\* the calibration or the unlocked set; only the frame does.
C23_OnlyFrameMutates ==
  [][ lastOp' \in HandlerOps =>
        UNCHANGED << RunStateButVelocity, velocityRef, CalibrationState,
                     unlockedTitlesRef >> ]_vars

\* C23: the frame never changes the calibration; the calibration handlers
\* change nothing but the calibration; the remaining handlers other than the
\* resume leave depth, run timer, aggregates, milestone progress, calibration
\* and the unlocked set alone and change the velocity only in inertia mode;
\* the resume changes no calibration.
C23_WhoMutatesWhat ==
  [][ /\ lastOp' = "tick" => UNCHANGED CalibrationState
      /\ lastOp' \in {"calibrate", "recalibrate", "resetcal"} =>
           UNCHANGED << RunStateButVelocity, velocityRef, unlockedTitlesRef,
                        autoPxPerCm >>
      /\ lastOp' = "event" =>
           /\ UNCHANGED << RunStateButVelocity, CalibrationState,
                           unlockedTitlesRef >>
           /\ velocityRef' # velocityRef => inertiaEnabled
      /\ lastOp' = "resume" => UNCHANGED CalibrationState ]_vars

\* A wheel event of -1 500 000 px in inertia mode during a run.
C23_Witness ==
  /\ lastOp = "event" /\ inertiaEnabled /\ Active
  /\ ticks = 1 /\ events = 2
  /\ velocityRef = 43200 - 22500000

\* C24: at most one animation-frame callback is pending at any time, the one
\* requestRef names, also after animate was replaced; after the view is torn
\* down none is pending, so no frame runs any more.
C24_OneFramePending ==
  /\ Cardinality(pendingFrames) <= 1
  /\ pendingFrames \subseteq {requestRef}
  /\ phase = "mounted" => pendingFrames # {}
  /\ phase = "unmounted" => pendingFrames = {}

\* Torn down after a frame and a switch to direct mode.
C24_Witness ==
  /\ phase = "unmounted"
  /\ ticks >= 1 /\ ~inertiaEnabled
  /\ requestRef >= 3
  /\ pendingFrames = {}

\* C25: after every frame, in inertia and in direct mode, depth 0 comes with
\* velocity 0, and depth is never below 0.
C25_GroundedMeansStopped ==
  AfterTick => depthRef >= 0 /\ (depthRef = 0 => velocityRef = 0)

\* A direct-mode frame whose input of -1 500 000 px ended on the floor.
C25_Witness ==
  /\ AfterTick /\ ~inertiaEnabled
  /\ depthRef = 0 /\ velocityRef = 0
  /\ lastVelocity > 0

\* The velocity a frame starts from, before friction and gravity.
VelocityBefore == IF inertiaEnabled THEN velocityRef ELSE inputDeltaRef
\* The depth the coming frame would end at if gravity stayed out of it.
DepthWithoutGravity ==
  IF inertiaEnabled
  THEN Max(0, depthRef + Sign(velocityRef) * MulDiv(Abs(velocityRef), FRICTION, 100))
  ELSE Max(0, depthRef + inputDeltaRef)

\* C26: a frame lowers the depth by gravity only if it is not itself moving
\* and at least 2000 ms have passed since the last moving frame (or the
\* resume) of the run; a moving frame above the floor restarts that delay, a
\* frame that is not moving leaves it running, in both modes.
C26_GravityOnlyAfterIdleDelay ==
  [][ lastOp' = "tick" =>
        LET moving == Abs(VelocityBefore) > MOVING_EPS IN
        /\ depthRef' < DepthWithoutGravity =>
             /\ ~moving
             /\ lastMoveTimeRef # None
             /\ time' - lastMoveTimeRef[1] >= IDLE_GRAVITY_DELAY_MS
        /\ (moving /\ depthRef' > 0) => lastMoveTimeRef' = Some(time')
        /\ (~moving /\ depthRef' > 0) => lastMoveTimeRef' = lastMoveTimeRef
    ]_vars

\* An idle frame 2000 ms after a direct move to 3000 px: gravity took 1.1 px.
C26_Witness ==
  /\ AfterTick
  /\ depthRef = 300000 - DynamicGravity(300000)
  /\ lastMoveTimeRef # None
  /\ time - lastMoveTimeRef[1] >= IDLE_GRAVITY_DELAY_MS

\* C27: a frame in which gravity acts (idle for 2000 ms, not moving) ends at
\* the depth it would have reached without gravity, lowered from the depth
\* d > 0 gravity found by min(0.8 + d * 0.0001, 3.0) and not below 0; the pull
\* is at most 3.0; the velocity is what it is without gravity.
C27_GravityPullIsCapped ==
  [][ ( /\ lastOp' = "tick"
        /\ Abs(VelocityBefore) <= MOVING_EPS
        /\ lastMoveTimeRef # None
        /\ time' - lastMoveTimeRef[1] >= IDLE_GRAVITY_DELAY_MS ) =>
        LET v1 == IF inertiaEnabled
                  THEN Sign(velocityRef) * MulDiv(Abs(velocityRef), FRICTION, 100)
                  ELSE inputDeltaRef
            found == IF inertiaEnabled THEN depthRef ELSE DepthWithoutGravity
            pull == IF found > 0
                    THEN Min(GRAVITY + found \div GRAVITY_DEPTH_SCALE, GRAVITY_MAX)
                    ELSE 0
            pulled == Max(0, found - pull)
        IN  /\ depthRef' = (IF inertiaEnabled THEN Max(0, pulled + v1) ELSE pulled)
            /\ DepthWithoutGravity - depthRef' \in 0..GRAVITY_MAX
            /\ velocityRef' = (IF depthRef' > 0 THEN v1 ELSE 0) ]_vars

\* An idle frame at 1 500 000 px: the pull is the cap of 3.0 px.
C27_Witness ==
  /\ AfterTick
  /\ depthRef = 150000000 - GRAVITY_MAX
  /\ velocityRef = 0
  /\ time - lastMoveTimeRef[1] >= IDLE_GRAVITY_DELAY_MS

C29_RunMaximaNonDecreasing ==
  [][ (lastOp' = "tick" /\ Active /\ runStartTimeRef' # None) =>
        /\ runTimeRef' >= runTimeRef
        /\ maxSpeedRef' >= maxSpeedRef
        /\ maxAccelRef' >= maxAccelRef ]_vars

\* A run whose third frame is slower than its first.
C29_Witness ==
  /\ AfterTick /\ Active
  /\ ticks = 3
  /\ runTimeRef > 0
  /\ maxSpeedRef > currentSpeedMpsRef
  /\ maxAccelRef > 0

\* The increments of the direction-change counter a frame has queued.
QueuedIncrements == Len(SelectSeq(updateQueue, LAMBDA u : u.op = "incScroll"))

\* C30: a frame adds exactly 1 to the direction-change count when the sign of
\* its velocity is not 0 and differs from the sign of the last frame with a
\* velocity other than 0, and nothing otherwise; once the frame that grounds
\* the run is rendered the count is 0.
C30_DirectionChangeCount ==
  [][ /\ lastOp' = "tick" =>
           QueuedIncrements' =
             (IF Sign(VelocityBefore) \notin {0, lastScrollDir} THEN 1 ELSE 0)
      /\ JustLanded => scrollCountRef' = 0 /\ scrollCount' = 0 ]_vars

C32_TimeStepBounded ==
  [][ lastOp' = "tick" =>
        LET dtSec == DtSec(lastTimeRef, time') IN
        /\ dtSec >= 50
        /\ lastTimeRef = None => dtSec = 100
        /\ (lastTimeRef # None /\ lastTimeRef[1] # 0) =>
             dtSec >= (time' - lastTimeRef[1]) * 6
        /\ lastVelocity' = MulDiv(Abs(VelocityBefore), 60, dtSec)
        /\ lastTimeRef' = Some(time')
        /\ lastVelocity' <= MulDiv(Abs(VelocityBefore), 60, 50)
    ]_vars

\* A second frame 4 ms after the first: the step is 1/120 s, not 4 ms.
C32_Witness ==
  /\ AfterTick /\ inertiaEnabled
  /\ ticks = 2 /\ time = 8
  /\ velocityRef = 41472
  /\ lastVelocity = MulDiv(43200, 60, 50)

\* The rows of the table whose threshold the converted depth has reached.
ReachedRows(currentM) ==
  {i \in 1..Len(config) : currentM >= config[i].meters * 100}

\* C33: a frame of an active run adds the key of every threshold the converted
\* depth has reached to the unlocked set; when that adds keys the stored list
\* is the updated set at the end of the frame; the frame notifies once for
\* each added key and for no other, in ascending threshold order.
C33_UnlocksAllReached ==
  [][ (lastOp' = "tick" /\ runStartTimeRef' # None) =>
        LET rows == ReachedRows(PxToCm(depthRef', PxPerCm))
            added == {config[i].key : i \in rows} \ unlockedTitlesRef
            RowOf(k) == CHOOSE i \in 1..Len(config) : config[i].key = k
        IN
        /\ unlockedTitlesRef' = unlockedTitlesRef \cup added
        /\ added # {} => store'.titles = Some(unlockedTitlesRef')
        /\ added = {} => store'.titles = store.titles
        /\ {toastCalls'[n] : n \in 1..Len(toastCalls')} = added
        /\ Len(toastCalls') = Cardinality(added)
        /\ \A m, n \in 1..Len(toastCalls') :
             m < n => config[RowOf(toastCalls'[m])].meters
                        < config[RowOf(toastCalls'[n])].meters
    ]_vars

\* One direct-mode frame to 397 m unlocks the first three achievements.
C33_Witness ==
  /\ AfterTick /\ Active
  /\ toastCalls = << "77.7", "200", "333" >>
  /\ unlockedTitlesRef = {"77.7", "200", "333"}
  /\ store.titles = Some(unlockedTitlesRef)

\* ------------------------------------------------- startup over stored text
\* A snapshot as persistRunState writes it, of a run at the depth given (no
\* milestone passed, no title unlocked).
StoredSnapshot(depth) ==
  Payload(depth, 0, 2000, << >>, {}, 0, 0, 0, 0, 0, 0, {})

\* What a visitor may find under the run key as text that parses: nothing, a
\* snapshot at 3000 px, or a snapshot whose depth is 0, negative or 1e999.
StoredRunChoices ==
  {None, Some(StoredSnapshot(300000)), Some(StoredSnapshot(0)),
   Some(StoredSnapshot(0 - 300000)), Some(StoredSnapshot(Infinity))}

\* What may be found under the titles key as text that parses to a list.
StoredTitleChoices == {None, Some({"77.7"})}

\* The stores a visitor may arrive with: each of the two keys holds text that
\* parses, or text JSON.parse throws on.
StoredChoices ==
  {[EmptyStore EXCEPT !.run = r, !.titles = t, !.unparseable = u] :
     r \in StoredRunChoices, t \in StoredTitleChoices,
     u \in SUBSET {"titles", "run"}}

InitStored ==
  /\ phase = "loading"
  /\ config = ACHIEVEMENTS
  /\ time = 0
  /\ store \in {st \in StoredChoices :
                  /\ "run" \in st.unparseable => st.run = None
                  /\ "titles" \in st.unparseable => st.titles = None}
  /\ MemoryInit
  /\ spacingChecks = 0
  /\ lastOp = "init"
  /\ ticks = 0
  /\ events = 0

NextStored ==
  \/ Startup /\ UNCHANGED rafVars
  \/ \E dt \in DtChoices : Tick(dt) /\ UNCHANGED rafVars
  \/ Render /\ UNCHANGED rafVars
  \/ \E delta \in WheelDeltas : handleWheel(delta) /\ UNCHANGED rafVars
  \/ handleResumeRun /\ UNCHANGED rafVars
  \/ handleStartFresh /\ UNCHANGED rafVars
  \/ Reload /\ UNCHANGED rafVars

\* The page opened over a store that holds text under the run and titles keys.
SpecStored == InitStored /\ [][NextStored]_vars

\* The text under the run key is not a snapshot to resume from.
CorruptRun(st) ==
  \/ "run" \in st.unparseable
  \/ st.run # None /\ ~(IsFinite(st.run[1].depth) /\ st.run[1].depth > 0)

\* The text under the titles key is not a list.
CorruptTitles(st) == "titles" \in st.unparseable

\* C34: a startup that finds a corrupt snapshot or titles list removes the key
\* from the store, uses the default (no title unlocked; grounded with no
\* resume prompt) and mounts the page.
C34_CorruptStoredDataDiscarded ==
  [][ lastOp' = "startup" =>
        /\ phase' = "mounted"
        /\ CorruptRun(store) =>
             /\ store'.run = None /\ "run" \notin store'.unparseable
             /\ pendingResume' = None /\ depthRef' = 0
        /\ CorruptTitles(store) =>
             /\ store'.titles = None /\ "titles" \notin store'.unparseable
             /\ unlockedTitlesRef' = {} ]_vars

\* ------------------------------------------------------ a run left to itself
\* Frames explored in a run that receives no more input.
MaxIdleTicks == 400

\* The gap between the frames of a run left alone, ms.
IdleDtChoices == {2000}
\* Wheel input of a run left alone after its first frames: 10 px (1/100 px).
\* The touch input is the finger movement of 0.4 px of TouchDeltas.
IdleWheelDeltas == {1000}

\* An animation frame of the run left alone.
IdleFrame(dt) == ticks < MaxIdleTicks /\ FrameStep(dt, FALSE)

\* Input arrives during the first frames only.
EarlyWheel(delta) == ticks < MaxTicks /\ handleWheel(delta)
EarlyTouch(delta) == ticks < MaxTicks /\ onTouchMove(delta)

NextIdle ==
  \/ Startup /\ UNCHANGED rafVars
  \/ \E dt \in IdleDtChoices : IdleFrame(dt) /\ UNCHANGED rafVars
  \/ Render /\ UNCHANGED rafVars
  \/ \E delta \in IdleWheelDeltas : EarlyWheel(delta) /\ UNCHANGED rafVars
  \/ \E delta \in TouchDeltas : EarlyTouch(delta) /\ UNCHANGED rafVars

\* The page with its animation loop running: animate requests the next frame
\* as its last statement and React commits the updates a frame queued, so
\* neither stays enabled forever without happening.
SpecIdle ==
  /\ Init /\ [][NextIdle]_vars
  /\ WF_vars(\E dt \in IdleDtChoices : IdleFrame(dt) /\ UNCHANGED rafVars)
  /\ WF_vars(Render /\ UNCHANGED rafVars)

\* C35: a run in the air comes back to the ground once input has stopped,
\* however the depth was reached.
C35_RunEventuallyGrounds == (depthRef > 0) ~> (depthRef = 0)

\* C36: every snapshot in the store has a split for exactly the thresholds in
\* its passedMilestones, and so has the run state right after a resume.
C36_SnapshotSplitsMatchMilestones ==
  /\ store.run # None =>
       Thresholds(store.run[1].splits) = store.run[1].passedMilestones
  /\ lastOp = "resume" => Thresholds(splitsRef) = passedMilestonesRef

\* The first k thresholds of MILESTONES_CM.
MilestonePrefix(k) == {MILESTONES_CM[i] : i \in 1..k}

\* C37: after every frame of a run that was not resumed the thresholds
\* recorded are the first k of MILESTONES_CM for some k, each has its split,
\* and a larger threshold never has an earlier split time than a smaller one;
\* confirming or resetting a calibration during the run does not change this.
C37_MilestonesArePrefix ==
  AfterTick =>
    /\ \E k \in 0..Len(MILESTONES_CM) : passedMilestonesRef = MilestonePrefix(k)
    /\ Thresholds(EffectiveSplits) = passedMilestonesRef
    /\ \A i, j \in 1..Len(EffectiveSplits) :
         EffectiveSplits[i].distanceCm <= EffectiveSplits[j].distanceCm =>
           EffectiveSplits[i].timeMs <= EffectiveSplits[j].timeMs

\* A run passes the first four thresholds in its first frame at the automatic
\* factor; the factor is then halved in the calibration dialog and the next
\* frame passes the fifth threshold, with a later split time.
C37_Witness ==
  /\ AfterTick /\ Active
  /\ calibratedPxPerCm = Some(MulDiv(DEFAULT_PX_PER_CM, 500, 1000))
  /\ passedMilestonesRef = MilestonePrefix(5)
  /\ Len(EffectiveSplits) = 5
  /\ EffectiveSplits[1].timeMs > EffectiveSplits[2].timeMs

\* C38: while the page is mounted the list under the titles key holds exactly
\* the keys of the unlocked set in memory: after the startup load, after an
\* unlock in a frame, after a resume, after a discard and after a landing.
C38_StoredTitlesMirrorMemory ==
  phase = "mounted" =>
    /\ StoredTitles(store) = unlockedTitlesRef
    /\ "titles" \notin store.unparseable

\* The page was opened over a stored list holding "77.7"; a run started from
\* the ground then reached 200 m, and the frame stored both keys.
C38_Witness ==
  /\ AfterTick /\ Active
  /\ toastCalls = << "200" >>
  /\ unlockedTitlesRef = {"77.7", "200"}
  /\ store.titles = Some(unlockedTitlesRef)

\* ------------------------------------------------------------- the overlays
\* The stores a visitor may arrive with: inertia switched off on an earlier
\* visit or not, a snapshot of a run at 3000 px left behind or not.
OverlayStoreChoices ==
  {[EmptyStore EXCEPT !.inertia = i, !.run = r] :
     i \in {None, Some(FALSE)}, r \in {None, Some(StoredSnapshot(300000))}}

InitOverlay ==
  /\ phase = "loading"
  /\ config = ACHIEVEMENTS
  /\ time = 0
  /\ store \in OverlayStoreChoices
  /\ MemoryInit
  /\ spacingChecks = 0
  /\ lastOp = "init"
  /\ ticks = 0
  /\ events = 0

NextOverlay ==
  \/ Startup /\ UNCHANGED rafVars
  \/ \E dt \in DtChoices : Tick(dt) /\ UNCHANGED rafVars
  \/ Render /\ UNCHANGED rafVars
  \/ \E delta \in WheelDeltas : handleWheel(delta) /\ UNCHANGED rafVars
  \/ \E delta \in TouchDeltas : onTouchMove(delta) /\ UNCHANGED rafVars
  \/ OpenCalibration /\ UNCHANGED rafVars
  \/ \E scale \in ScaleChoices : handleCalibration(scale, 0) /\ UNCHANGED rafVars
  \/ OpenTitleGallery /\ UNCHANGED rafVars
  \/ CloseTitleGallery /\ UNCHANGED rafVars
  \/ handleResumeRun /\ UNCHANGED rafVars
  \/ handleStartFresh /\ UNCHANGED rafVars

\* The page with its three overlays: title gallery, calibration dialog and
\* resume prompt.
SpecOverlay == InitOverlay /\ [][NextOverlay]_vars

\* One of the three overlays is on screen.
AnyOverlayOpen == showTitleGallery \/ showCalibration \/ pendingResume # None

\* C39: while an overlay is open no wheel or touch event changes the velocity
\* or the pending input delta (the only steps that change them are frames and
\* the Resume button of the prompt), and a frame does what it does without an
\* overlay: friction in inertia mode, the floor, gravity after the idle
\* delay, and the run is active afterwards exactly when the depth is above 0.
C39_OverlaysBlockInputOnly ==
  [][ AnyOverlayOpen =>
        /\ lastOp' \notin {"tick", "resume"} =>
             UNCHANGED << velocityRef, inputDeltaRef, depthRef >>
        /\ lastOp' = "tick" =>
             /\ (inertiaEnabled /\ depthRef' > 0) =>
                  velocityRef' = ApplyFriction(velocityRef)
             /\ depthRef' = 0 => velocityRef' = 0
             /\ ( /\ Abs(VelocityBefore) <= MOVING_EPS
                  /\ lastMoveTimeRef # None
                  /\ time' - lastMoveTimeRef[1] >= IDLE_GRAVITY_DELAY_MS
                  /\ depthRef > 0 ) => depthRef' < DepthWithoutGravity
             /\ (runStartTimeRef' # None) <=> (depthRef' > 0) ]_vars

\* Direct mode: the gallery was opened over a run at 3000 px; the frame
\* 2000 ms after the last movement let gravity take 1.1 px.
C39_Witness ==
  /\ AfterTick /\ showTitleGallery /\ ~inertiaEnabled
  /\ depthRef = 300000 - DynamicGravity(300000)
  /\ Active

\* C40: the stored high score never goes down; after every frame it is at
\* least the whole pixels of the frame's depth; it changes only in a frame
\* whose depth is above it, to the whole pixels of that depth, so neither a
\* landing nor the start of a run at or below it, nor a reload, changes it.
C40_HighScoreMonotone ==
  [][ /\ StoredHighScore(store') >= StoredHighScore(store)
      /\ lastOp' = "tick" => StoredHighScore(store') >= depthRef' \div 100
      /\ store'.highscore # store.highscore =>
           /\ lastOp' = "tick"
           /\ depthRef' > StoredHighScore(store) * 100
           /\ store'.highscore = Some(depthRef' \div 100) ]_vars

\* A run reached 216 000 px; after a reload the first frame of a new run, at
\* 432 px, leaves the stored high score as it was.
C40_Witness ==
  /\ AfterTick /\ Active /\ runTimeRef = 0
  /\ depthRef = 43200
  /\ StoredHighScore(store) = 216000

\* Under SpecIdle a run in which some frame was classified as moving does
\* come back to the ground within the frames explored.
MovedRunsGround == (depthRef > 0 /\ lastMoveTimeRef # None) ~> (depthRef = 0)

\* A frame of a run in which no frame was classified as moving yet, found
\* with a velocity (in direct mode: a pending input) between 0 and
\* MOVING_EPS, does not lower the depth and is not
\* classified as moving either: such a run stays in the air frame after frame.
NeverMovedFrameKeepsDepth ==
  [][ ( /\ lastOp' = "tick"
        /\ depthRef > 0
        /\ lastMoveTimeRef = None
        /\ VelocityBefore >= 0 /\ VelocityBefore <= MOVING_EPS ) =>
        /\ depthRef' >= depthRef
        /\ lastMoveTimeRef' = None
        /\ velocityRef' >= 0 /\ velocityRef' <= MOVING_EPS ]_vars

=============================================================================
